---------------------------- MODULE Spec2Model ----------------------------
(***************************************************************************)
(* Metriplectic Coherence Lab: the simulation controller (App), the        *)
(* numeric core (utils/physics) and the QuantumAudioManager.               *)
(*                                                                         *)
(* JavaScript numbers are modelled in fixed point: a value v is the        *)
(* integer v * Scale.  cos and log are computed by range reduction and a   *)
(* power series on these integers.  The one place where the rounding of    *)
(* IEEE-754 doubles decides the behaviour, the soliton age (t += 0.2,      *)
(* t < 15.0), is modelled exactly: see the Dbl section.                    *)
(***************************************************************************)
EXTENDS Integers, Sequences, FiniteSets

(***************************************************************************)
(* Fixed-point numbers                                                     *)
(***************************************************************************)
Scale == 10000

One == Scale

abs(x) == IF x < 0 THEN -x ELSE x

\* Integer division rounding toward zero, so that rounding is symmetric in
\* the sign as it is for doubles.
Quot(a, b) == IF a < 0 THEN -((-a) \div b) ELSE a \div b

\* x * y on fixed-point values
Mul(x, y) == Quot(x * y, Scale)

\* Math.floor
Floor(x) == (x \div Scale) * Scale

\* constants.ts
PHI == 16180

\* Math.PI, in units of 1e-6 (angles are kept in micro-radians)
PI == 3141593

\* PI * PHI, in units of 1e-6
PI_PHI == 5083204

\* Angle units per fixed-point unit
AngleUnit == 1000000 \div Scale

\* c * n for an angle constant c (1e-6 units) and a fixed-point n: the angle
\* in micro-radians.  Integer and fractional part of n are multiplied apart
\* so that the products stay inside 32 bits.
Angle(c, n) ==
    (n \div Scale) * c + ((n % Scale) * (c \div AngleUnit)) \div (Scale \div AngleUnit)

\* The cosine series on [0, PI/2]: x and the result are fixed-point.
RECURSIVE CosSeries(_, _, _)
CosSeries(x2, k, term) ==
    IF term = 0 THEN 0
    ELSE term - CosSeries(x2, k + 1, (term * x2) \div (Scale * (2 * k + 1) * (2 * k + 2)))

\* Math.cos of an angle a given in micro-radians: reduce to [0, 2 PI), fold to
\* [0, PI/2] and sum the series.
cos(a) ==
    LET r  == a % (2 * PI)
        f  == IF r > PI THEN 2 * PI - r ELSE r
        g  == IF 2 * f > PI THEN PI - f ELSE f
        x  == g \div AngleUnit
        c  == CosSeries((x * x) \div Scale, 0, Scale)
    IN  IF 2 * f > PI THEN -c ELSE c

\* ln 2
LN2 == 6931

\* The series 2 (z + z^3/3 + z^5/5 + ...) of ln((1+z)/(1-z))
RECURSIVE LogSeries(_, _, _)
LogSeries(z2, k, pow) ==
    IF pow = 0 THEN 0
    ELSE Quot(2 * pow, 2 * k + 1) + LogSeries(z2, k + 1, Quot(pow * z2, Scale))

\* Math.log of a fixed-point x > 0: halve the argument into [1/2, 2) and sum
\* the series in z = (x - 1) / (x + 1).
RECURSIVE log(_)
log(x) ==
    IF 2 * x < Scale THEN log(2 * x) - LN2
    ELSE IF x > 2 * Scale THEN log(x \div 2) + LN2
    ELSE LET z == Quot((x - Scale) * Scale, x + Scale)
         IN  LogSeries((z * z) \div Scale, 0, z)

(***************************************************************************)
(* IEEE-754 doubles, exactly, for the soliton age.  A double d with        *)
(* 0 <= d < 64 that is a multiple of 2^-55 is the pair [hi, lo] with       *)
(* d = (hi * 2^30 + lo) * 2^-55 and 0 <= lo < 2^30.  Every age the program *)
(* computes (0, 0.2, 0.2 + 0.2, ...) is such a number.                     *)
(***************************************************************************)
Limb == 2^30

\* The exponent of the unit in the last place, relative to 2^-55: a double
\* has 53 significant bits, so a value below 2^53 units is exact and each
\* further binade doubles the spacing.
RECURSIVE UlpExp(_, _)
UlpExp(hi, k) == IF hi < 2^(23 + k) THEN k ELSE UlpExp(hi, k + 1)

\* a + b in double arithmetic: the exact sum, rounded to the nearest
\* representable double, ties to even.
DblAdd(a, b) ==
    LET lo0  == a.lo + b.lo
        hi0  == a.hi + b.hi + (lo0 \div Limb)
        lo1  == lo0 % Limb
        k    == UlpExp(hi0, 0)
        ulp  == 2^k
        r    == lo1 % ulp
        base == lo1 - r
        up   == \/ 2 * r > ulp
                \/ 2 * r = ulp /\ (base \div ulp) % 2 = 1
        lo2  == IF up THEN base + ulp ELSE base
    IN  [hi |-> hi0 + (lo2 \div Limb), lo |-> lo2 % Limb]

\* a < b on doubles
DblLt(a, b) == a.hi < b.hi \/ (a.hi = b.hi /\ a.lo < b.lo)

\* 0
DblZero == [hi |-> 0, lo |-> 0]

\* The double nearest to 0.2: 7205759403792794 * 2^-55
AGE_STEP == [hi |-> 6710886, lo |-> 429496730]

\* 15.0 = 15 * 2^55 * 2^-55
MAX_AGE == [hi |-> 15 * 2^25, lo |-> 0]

(***************************************************************************)
(* utils/physics                                                           *)
(***************************************************************************)
\* 1e-9 at the resolution of the model: the smallest positive value
TINY == 1

\* Mutant: the two cosines are added
calculateAureoOperator_Sum(n) ==
    LET parity == cos(Angle(PI, n))
        quasi  == cos(Angle(PI_PHI, n))
    IN  parity + quasi

\* An = cos(pi * n) * cos(pi * phi * n)
calculateAureoOperator(n) ==
    LET parity == cos(Angle(PI, n))
        quasi  == cos(Angle(PI_PHI, n))
    IN  Mul(parity, quasi)

\* 1.0 / PHI
Golden == Quot(One * Scale, PHI)

entropy(val) ==
    LET target    == Golden
        deviation == abs(abs(val) - target)
    IN  IF deviation < TINY THEN 0
        ELSE Mul(-deviation, log(deviation + TINY))

\* Mutant: the step index is not advanced
metripleticEvolution_StaleIndex(state, dt, quantumMatrix_) ==
    LET n_next  == Floor(state.n)
        An_next == calculateAureoOperator(n_next)
    IN  [q |-> An_next, p |-> An_next - state.An, n |-> n_next,
         S |-> entropy(An_next), kappa |-> abs(An_next), An |-> An_next]

\* Mutant: kappa keeps the sign of the operator value
metripleticEvolution_SignedKappa(state, dt, quantumMatrix_) ==
    LET n_next  == Floor(state.n + One)
        An_next == calculateAureoOperator(n_next)
    IN  [q |-> An_next, p |-> An_next - state.An, n |-> n_next,
         S |-> entropy(An_next), kappa |-> An_next, An |-> An_next]

\* Mutant: the step index advances by dt
metripleticEvolution_UsesDt(state, dt, quantumMatrix_) ==
    LET n_next  == Floor(state.n + dt)
        An_next == calculateAureoOperator(n_next)
    IN  [q |-> An_next, p |-> An_next - state.An, n |-> n_next,
         S |-> entropy(An_next), kappa |-> abs(An_next), An |-> An_next]

metripleticEvolution(state, dt, quantumMatrix_) ==
    LET n_next       == Floor(state.n + One)
        An_next      == calculateAureoOperator(n_next)
        q_next       == An_next
        p_next       == An_next - state.An
        S_next       == entropy(An_next)
        dynamicKappa == abs(An_next)
    IN  [q |-> q_next, p |-> p_next, n |-> n_next, S |-> S_next,
         kappa |-> dynamicKappa, An |-> An_next]

RECURSIVE SumAbsAn(_)
SumAbsAn(states) ==
    IF states = <<>> THEN 0
    ELSE abs(Head(states).An) + SumAbsAn(Tail(states))

\* The length below which detectRotor gives no score, and of its window
ROTOR_WINDOW == 10

\* 0.1
LOCK_BAND == 1000

\* 0.9
LOCK_SCORE == 9000

\* 0.2
NO_LOCK_SCORE == 2000

\* trajectory.slice(-10)
Recent(trajectory_) ==
    SubSeq(trajectory_, Len(trajectory_) - ROTOR_WINDOW + 1, Len(trajectory_))

\* Mutant: the edge of the lock band counts as a lock
detectRotor_Inclusive(trajectory_) ==
    IF Len(trajectory_) < ROTOR_WINDOW THEN 0
    ELSE LET recent == Recent(trajectory_)
             avgMag == Quot(SumAbsAn(recent), Len(recent))
         IN  IF abs(avgMag - Golden) <= LOCK_BAND THEN LOCK_SCORE
             ELSE NO_LOCK_SCORE

detectRotor(trajectory_) ==
    IF Len(trajectory_) < ROTOR_WINDOW THEN 0
    ELSE LET recent == Recent(trajectory_)
             avgMag == Quot(SumAbsAn(recent), Len(recent))
             golden == Golden
         IN  IF abs(avgMag - golden) < LOCK_BAND THEN LOCK_SCORE
             ELSE NO_LOCK_SCORE

(***************************************************************************)
(* constants.ts                                                            *)
(***************************************************************************)
TRAJECTORY_LENGTH == 64

QUANTUM_DIM == 32

INITIAL_STATE ==
    [q |-> One, p |-> 0, n |-> One, S |-> 0, kappa |-> One \div 10, An |-> One]

(***************************************************************************)
(* Bounds of the model                                                     *)
(***************************************************************************)
\* The timer steps while the last step index is below MaxN.
MaxN == 68

\* The user presses a button or taps the hologram (start/pause, reset, tap,
\* microphone toggle, analysis request) at most MaxEvents times in a run;
\* edits of the index field are not counted.
MaxEvents == 2

\* Solitons triggered on one manager
MaxSolitons == 2

\* The count of matrix computations a soliton has seen is kept up to MaxTicks.
MaxTicks == 77

\* What the user types into the index field (the initial text is "1").
InputTexts == { <<>>, <<"0">>, <<"-", "2">> }

\* The grid cells at which solitons are triggered in direct calls, and the
\* cell the user taps
GridPoints == { <<0, 0>>, <<QUANTUM_DIM - 1, QUANTUM_DIM \div 2>> }

TapPoints == { <<QUANTUM_DIM \div 2, QUANTUM_DIM \div 2>> }

Null == "null"

\* A parsed number is [nan |-> FALSE, value |-> v]; NaN is
NaN == [nan |-> TRUE, value |-> 0]

(***************************************************************************)
(* State                                                                   *)
(***************************************************************************)
VARIABLES
    \* App: React state
    isRunning, trajectory, step, isDetected, inputN, isMicActive,
    quantumMatrix, isAnalyzing, aiReport,
    \* App: the intervals that are registered (their ids); timerRef.current
    \* (0 for null); the component is mounted; the count of alert() calls
    timers, timerRef, mounted, alerts,
    \* QuantumAudioManager (the instance audioManagerRef holds)
    solitons, solitonCounter, stream, analyser, audioContext,
    \* The generation of the instance audioManagerRef holds; the pending
    \* getUserMedia requests, each with the generation that asked; the
    \* streams that were acquired, are not stopped, and are not the stream
    \* of the instance audioManagerRef holds
    mgrGen, micPending, orphanStreams,
    \* The remote analysis call is outstanding; process.env.API_KEY is set
    analysisPending, apiKey,
    \* The count of user actions so far, and the bounds of the run: the user
    \* acts at most eventBudget times, the timer steps below index stepLimit
    events, eventBudget, stepLimit,
    \* History: for each soliton id of the current manager, the count of
    \* computeQuantumState calls since it was triggered; the frequency data
    \* the last computeQuantumState read
    solitonTicks, lastSnapshot,
    \* History: the count of denied acquisitions; a denial was answered to
    \* the current manager and no acquisition was ever granted to it; the last
    \* computeQuantumState read its frequency data after such a denial
    micDenials, micDenied, silentRead,
    \* History: the count of remote calls started, and of those that ended;
    \* what the last one did
    remoteCalls, callsEnded, lastOutcome,
    \* History: a reset happened while the outstanding remote call was under way
    resetSince,
    \* Direct calls of the pure functions: argument and results
    evoArg, evoCalls, detArg, detOut, matArg, matOut, opArg, opOut

appVars == <<isRunning, trajectory, step, isDetected, inputN, isMicActive,
             quantumMatrix, isAnalyzing, aiReport, timers, timerRef, mounted, alerts>>

devVars == <<stream, analyser, audioContext>>

mgrVars == <<solitons, solitonCounter, devVars, solitonTicks, lastSnapshot, silentRead>>

micVars == <<mgrGen, micPending, orphanStreams, micDenials, micDenied>>

aiVars == <<analysisPending, apiKey, remoteCalls, callsEnded, lastOutcome, resetSince>>

budgetVars == <<eventBudget, stepLimit>>

envVars == <<events, budgetVars>>

callVars == <<evoArg, evoCalls, detArg, detOut, matArg, matOut, opArg, opOut>>

vars == <<appVars, mgrVars, micVars, aiVars, envVars, callVars>>

\* An interval is registered: stepSimulation is called every 100 ms
timerActive == timers # {}

Last(seq) == seq[Len(seq)]

(***************************************************************************)
(* parseInt                                                                *)
(***************************************************************************)
DigitValue(c) ==
    CASE c = "0" -> 0 [] c = "1" -> 1 [] c = "2" -> 2 [] c = "3" -> 3
      [] c = "4" -> 4 [] c = "5" -> 5 [] c = "6" -> 6 [] c = "7" -> 7
      [] c = "8" -> 8 [] c = "9" -> 9 [] OTHER -> -1

\* The value of the longest prefix of digits of text, continuing acc; the
\* parse stops at the first character that is no digit.
RECURSIVE ParseDigits(_, _)
ParseDigits(text, acc) ==
    IF text = <<>> \/ DigitValue(Head(text)) < 0 THEN acc
    ELSE ParseDigits(Tail(text), 10 * acc + DigitValue(Head(text)))

\* parseInt(text): an optional sign, then digits; NaN when no digit follows.
parseInt(text) ==
    LET neg  == text # <<>> /\ Head(text) = "-"
        body == IF text # <<>> /\ Head(text) \in {"-", "+"} THEN Tail(text) ELSE text
    IN  IF body = <<>> \/ DigitValue(Head(body)) < 0 THEN NaN
        ELSE [nan |-> FALSE,
              value |-> IF neg THEN -ParseDigits(body, 0) ELSE ParseDigits(body, 0)]

\* parseInt(inputN) || 1, as a fixed-point number: NaN and 0 are falsy
StartN(text) ==
    LET v == parseInt(text)
    IN  IF v.nan \/ v.value = 0 THEN One ELSE v.value * Scale

(***************************************************************************)
(* QuantumAudioManager                                                     *)
(***************************************************************************)
\* triggerSoliton(x, y): the solitons after the push
triggerSoliton(sols, counter, x, y) ==
    Append(sols, [id |-> counter, x |-> x, y |-> y, t |-> DblZero, amplitude |-> One])

\* computeQuantumState, its update of the solitons: every age grows by 0.2,
\* then the solitons whose age is not below 15.0 are dropped.
AgeSolitons(sols) ==
    LET aged == [i \in DOMAIN sols |-> [sols[i] EXCEPT !.t = DblAdd(@, AGE_STEP)]]
        Alive(s) == DblLt(s.t, MAX_AGE)
    IN  SelectSeq(aged, Alive)

\* History: one more computation seen by every soliton triggered so far
TickAll(ticks) ==
    [i \in DOMAIN ticks |-> IF ticks[i] < MaxTicks THEN ticks[i] + 1 ELSE ticks[i]]

\* The matrix computeQuantumState returns; its cells are not part of the state.
Matrix == "matrix"

\* new Uint8Array(QUANTUM_DIM), and dataArray.fill(0)
Zeros == [k \in 0..(QUANTUM_DIM - 1) |-> 0]

\* What the analyser hears: frequency magnitudes, one byte per bin
AudioFrames ==
    { [k \in 0..(QUANTUM_DIM - 1) |-> 255],
      [k \in 0..(QUANTUM_DIM - 1) |-> 8 * k] }

\* getFrequencyData(): the analyser's bytes, or zeros without an analyser
getFrequencyData(an, heard) == IF an # Null THEN heard ELSE Zeros

\* The fields stream, audioContext, analyser of a manager
NoDevices == [stream |-> Null, audioContext |-> Null, analyser |-> Null]

\* Mutant: the context and the analyser are made before the stream is asked for
initialize_EagerAnalyser(held, granted) ==
    [stream       |-> IF granted THEN "live" ELSE held.stream,
     audioContext |-> "live",
     analyser     |-> "live",
     threw        |-> FALSE]

\* initialize(), from the answer of getUserMedia on: a grant stores the
\* stream, the context and the analyser; a denial is caught and logged, so
\* the call never throws.
initialize(held, granted) ==
    IF granted
    THEN [stream |-> "live", audioContext |-> "live", analyser |-> "live", threw |-> FALSE]
    ELSE [stream |-> held.stream, audioContext |-> held.audioContext,
          analyser |-> held.analyser, threw |-> FALSE]

\* cleanup(): the stream is stopped, the context closed, the fields cleared
cleanup == NoDevices

(***************************************************************************)
(* computeQuantumState: the cells                                          *)
(***************************************************************************)
\* Newton's iteration for the integer square root of m, from x >= sqrt(m)
RECURSIVE SqrtIter(_, _)
SqrtIter(m, x) ==
    LET y == (x + m \div x) \div 2
    IN  IF y >= x THEN x ELSE SqrtIter(m, y)

\* Math.sqrt of an integer m with 0 <= m < 2147, as a fixed-point value
sqrt(m) == IF m = 0 THEN 0 ELSE 10 * SqrtIter(m * 1000000, 46341)

\* The series z - z^3/3 + z^5/5 - ... of atan z
RECURSIVE AtanSeries(_, _, _)
AtanSeries(z2, k, pow) ==
    IF pow = 0 THEN 0
    ELSE Quot(pow, 2 * k + 1) - AtanSeries(z2, k + 1, Quot(pow * z2, Scale))

\* atan of a fixed-point z in [0, 1], in micro-radians: above tan(PI/8) the
\* argument is folded by atan z = PI/4 - atan((1 - z) / (1 + z)).
Atan01(z) ==
    IF z > 4142
    THEN LET w == ((Scale - z) * Scale) \div (Scale + z)
         IN  PI \div 4 - AngleUnit * AtanSeries((w * w) \div Scale, 0, w)
    ELSE AngleUnit * AtanSeries((z * z) \div Scale, 0, z)

\* Math.atan2 of two integers, in micro-radians
atan2(y, x) ==
    LET ax == abs(x)
        ay == abs(y)
        a  == IF ay > ax THEN PI \div 2 - Atan01((ax * Scale) \div ay)
              ELSE Atan01((ay * Scale) \div ax)
        b  == IF x < 0 THEN PI - a ELSE a
    IN  IF x = 0 /\ y = 0 THEN 0
        ELSE IF y < 0 THEN -b ELSE b

\* Math.sin of an angle in micro-radians
sin(a) == cos(a - PI \div 2)

\* The series 1 - x + x^2/2 - x^3/6 + ... of exp(-x)
RECURSIVE ExpSeries(_, _, _)
ExpSeries(x, k, term) ==
    IF term = 0 THEN 0
    ELSE term - ExpSeries(x, k + 1, (term * x) \div (Scale * (k + 1)))

\* exp(-x) for a fixed-point x >= 0: the argument is halved down to 1/2 and
\* the result squared back.
RECURSIVE ExpNeg(_)
ExpNeg(x) ==
    IF 2 * x > Scale
    THEN LET h == ExpNeg(x \div 2) IN Mul(h, h)
    ELSE ExpSeries(x, 0, Scale)

\* Math.exp of a fixed-point x <= 0, the only arguments the program passes
exp(x) == ExpNeg(-x)

\* A soliton age as a fixed-point value
DblToFixed(d) == ((d.hi \div 2^13) * Scale) \div 2^12

\* quasiperiodicImpedance(t, q) = abs(q) * (1.0 + 0.5 * cos(t * PHI * PI))
quasiperiodicImpedance(t, q) ==
    Mul(abs(q), Scale + Quot(cos(Angle(PI_PHI, t)), 2))

\* Mutant: the cell is pushed as it is
Clamp_None(value) == value

\* The two clamps of a cell: to 2.0 from above, to -2.0 from below
Clamp(value) ==
    IF value > 2 * Scale THEN 2 * Scale
    ELSE IF value < -2 * Scale THEN -2 * Scale
    ELSE value

\* ripple * decay of soliton s at cell (i, j)
Ripple(s, i, j) ==
    LET sx        == i - s.y
        sy        == j - s.x
        sDist     == sqrt(sx * sx + sy * sy)
        age       == DblToFixed(s.t)
        wavePhase == sDist - Quot(3 * age, 2)
        ripple    == Mul(sin(wavePhase * AngleUnit), exp(-Quot(abs(wavePhase), 2)))
        decay     == Mul(exp(-Quot(15 * age, 100)), s.amplitude)
    IN  Mul(ripple, decay)

\* The ripples of the solitons sols[k..] at cell (i, j), summed
RECURSIVE SumRipples(_, _, _, _)
SumRipples(sols, k, i, j) ==
    IF k > Len(sols) THEN 0
    ELSE Ripple(sols[k], i, j) + SumRipples(sols, k + 1, i, j)

\* The body of the two loops: the cell of row i, column j
Cell(i, j, amplitudes, timeIndex, q, sols) ==
    LET center       == QUANTUM_DIM \div 2
        maxRadius    == sqrt(center * center + center * center)
        dx           == i - center
        dy           == j - center
        distance     == sqrt(dx * dx + dy * dy)
        scaled       == (distance * (QUANTUM_DIM - 1)) \div maxRadius
        freqIndex    == IF scaled < QUANTUM_DIM - 1 THEN scaled ELSE QUANTUM_DIM - 1
        physicalAmp  == (amplitudes[freqIndex] * Scale) \div 255
        angle        == atan2(dy, dx)
        spin         == 3 * angle + (5 * timeIndex + q) * AngleUnit
        interference == Mul(cos(spin), sin((Quot(distance, 2) - 2 * timeIndex) * AngleUnit))
        Z            == quasiperiodicImpedance(timeIndex, q)
        value        == Mul(Mul(physicalAmp, interference), Scale + Quot(Z, 2))
    IN  Clamp(value + SumRipples(sols, 1, i, j))

\* Mutant: the cells are computed before the dead solitons are filtered out
computeQuantumState_FilterLast(amplitudes, timeIndex, q, sols) ==
    LET aged == [k \in DOMAIN sols |-> [sols[k] EXCEPT !.t = DblAdd(@, AGE_STEP)]]
    IN  [solitons |-> AgeSolitons(sols),
         matrix   |-> [i \in 1..QUANTUM_DIM |-> [j \in 1..QUANTUM_DIM |->
                          Cell(i - 1, j - 1, amplitudes, timeIndex, q, aged)]]]

\* computeQuantumState(timeIndex, q) on the frequency data amplitudes and the
\* solitons sols: the solitons it leaves and the matrix it returns, row i + 1
\* of the sequence being matrix[i].
computeQuantumState(amplitudes, timeIndex, q, sols) ==
    LET live == AgeSolitons(sols)
    IN  [solitons |-> live,
         matrix   |-> [i \in 1..QUANTUM_DIM |-> [j \in 1..QUANTUM_DIM |->
                          Cell(i - 1, j - 1, amplitudes, timeIndex, q, live)]]]

(***************************************************************************)
(* App                                                                     *)
(***************************************************************************)
\* The discrete step handed to metripleticEvolution
DT == One

\* The cut of the detection effect: a score above 0.5 is reported as locked
DETECTED_ABOVE == 5000

\* The least trajectory length the detection effect scores is one above this
EFFECT_MIN_LENGTH == 10

\* The state after the first render and the mount effect
InitApp ==
    /\ isRunning = FALSE
    /\ trajectory = <<INITIAL_STATE>>
    /\ step = 0
    /\ isDetected = FALSE
    /\ inputN = <<"1">>
    /\ isMicActive = FALSE
    /\ quantumMatrix = Null
    /\ isAnalyzing = FALSE
    /\ aiReport = ""
    /\ timers = {}
    /\ timerRef = 0
    /\ mounted = TRUE
    /\ alerts = 0
    /\ solitons = <<>>
    /\ solitonCounter = 0
    /\ stream = Null
    /\ analyser = Null
    /\ audioContext = Null
    /\ solitonTicks = <<>>
    /\ lastSnapshot = Zeros
    /\ mgrGen = 0
    /\ micPending = <<>>
    /\ orphanStreams = 0
    /\ micDenials = 0
    /\ micDenied = FALSE
    /\ silentRead = FALSE
    /\ analysisPending = FALSE
    /\ apiKey \in BOOLEAN
    /\ remoteCalls = 0
    /\ callsEnded = 0
    /\ lastOutcome = "none"
    /\ resetSince = FALSE
    /\ events = 0

\* No direct call of a pure function is under way
InitCalls ==
    /\ evoArg = <<>>
    /\ evoCalls = <<>>
    /\ detArg = <<>>
    /\ detOut = <<>>
    /\ matArg = <<>>
    /\ matOut = <<>>
    /\ opArg = <<>>
    /\ opOut = <<>>

Init ==
    /\ InitApp
    /\ InitCalls
    /\ eventBudget = MaxEvents
    /\ stepLimit = MaxN * Scale

\* The effect on [trajectory]: the detected flag after the trajectory became
\* traj, given the flag before the effect ran.
DetectionEffect(traj, detected) ==
    IF Len(traj) > EFFECT_MIN_LENGTH
    THEN detectRotor(traj) > DETECTED_ABOVE
    ELSE detected

\* clearInterval(id): no interval has id 0
ClearInterval(tms, id) == tms \ {id}

\* The id window.setInterval returns: ids are opaque handles, taken here as
\* the least positive integer no registered interval has
NewTimer(tms) ==
    CHOOSE id \in 1..(Cardinality(tms) + 1) :
        id \notin tms /\ \A j \in 1..(id - 1) : j \in tms

\* Mutant: the effect has no cleanup function
TimerEffect_NoCleanup(tms, ref, running) ==
    IF running
    THEN [timers |-> tms \cup {NewTimer(tms)}, timerRef |-> NewTimer(tms)]
    ELSE [timers |-> ClearInterval(tms, ref), timerRef |-> ref]

\* A re-run of the effect on [isRunning, stepSimulation]: the cleanup of the
\* run before clears the interval of timerRef, then the body registers a new
\* interval when running and clears the interval of timerRef when not.
TimerEffect(tms, ref, running) ==
    LET cleaned == ClearInterval(tms, ref)
    IN  IF running
        THEN [timers |-> cleaned \cup {NewTimer(cleaned)}, timerRef |-> NewTimer(cleaned)]
        ELSE [timers |-> ClearInterval(cleaned, ref), timerRef |-> ref]

\* A user action: the component is mounted and the run's budget allows it
UserActs ==
    /\ mounted
    /\ events < eventBudget
    /\ events' = events + 1
    /\ UNCHANGED budgetVars

\* Mutant: pausing leaves the interval registered
ToggleRunning_KeepsTimer ==
    /\ UserActs
    /\ isRunning' = ~isRunning
    /\ LET eff == TimerEffect(timers, timerRef, TRUE)
       IN  timers' = eff.timers /\ timerRef' = eff.timerRef
    /\ UNCHANGED <<trajectory, step, isDetected, inputN, isMicActive,
                   quantumMatrix, isAnalyzing, aiReport, mounted, alerts>>
    /\ UNCHANGED <<mgrVars, micVars, aiVars, callVars>>

\* The Initiate / Suspend button, and the effect on [isRunning, stepSimulation]
\* that registers or clears the interval.
ToggleRunning ==
    /\ UserActs
    /\ isRunning' = ~isRunning
    /\ LET eff == TimerEffect(timers, timerRef, ~isRunning)
       IN  timers' = eff.timers /\ timerRef' = eff.timerRef
    /\ UNCHANGED <<trajectory, step, isDetected, inputN, isMicActive,
                   quantumMatrix, isAnalyzing, aiReport, mounted, alerts>>
    /\ UNCHANGED <<mgrVars, micVars, aiVars, callVars>>

\* Mutant: the oldest state is never shifted out
Appended_NoEvict(prevTraj, nextState) == Append(prevTraj, nextState)

\* The trajectory after nextState is appended: the oldest state is shifted
\* out once the length exceeds TRAJECTORY_LENGTH.
Appended(prevTraj, nextState) ==
    LET newTraj == Append(prevTraj, nextState)
    IN  IF Len(newTraj) > TRAJECTORY_LENGTH THEN Tail(newTraj) ELSE newTraj

\* One tick of the interval: stepSimulation, then the detection effect.
StepSimulation ==
    /\ timerActive
    /\ Last(trajectory).n < stepLimit
    /\ LET currentState == Last(trajectory)
           nextState    == metripleticEvolution(currentState, DT, Matrix)
           newTraj      == Appended(trajectory, nextState)
       IN  /\ trajectory' = newTraj
           /\ isDetected' = DetectionEffect(newTraj, isDetected)
    /\ \E heard \in AudioFrames : lastSnapshot' = getFrequencyData(analyser, heard)
    /\ silentRead' = micDenied
    /\ solitons' = AgeSolitons(solitons)
    /\ solitonTicks' = TickAll(solitonTicks)
    /\ quantumMatrix' = Matrix
    /\ step' = step + 1
    /\ LET eff == TimerEffect(timers, timerRef, isRunning)
       IN  timers' = eff.timers /\ timerRef' = eff.timerRef
    /\ UNCHANGED <<isRunning, inputN, isMicActive, isAnalyzing, aiReport,
                   mounted, alerts>>
    /\ UNCHANGED <<solitonCounter, devVars, micVars, aiVars, envVars, callVars>>

\* Mutant: reset leaves q at its initial value
ResetState_StaleQ(text) ==
    LET startN == StartN(text)
        initAn == calculateAureoOperator(startN)
    IN  [INITIAL_STATE EXCEPT !.n = startN, !.An = initAn,
                              !.p = 0, !.S = entropy(initAn)]

\* The state resetSimulation builds for the text of the index field
ResetState(text) ==
    LET startN == StartN(text)
        initAn == calculateAureoOperator(startN)
    IN  [INITIAL_STATE EXCEPT !.n = startN, !.An = initAn, !.q = initAn,
                              !.p = 0, !.S = entropy(initAn)]

\* The Reset button
ResetSimulation ==
    /\ UserActs
    /\ isRunning' = FALSE
    /\ trajectory' = <<ResetState(inputN)>>
    /\ step' = 0
    /\ isDetected' = DetectionEffect(<<ResetState(inputN)>>, FALSE)
    /\ aiReport' = ""
    /\ LET cleared == ClearInterval(timers, timerRef)
           eff     == IF isRunning \/ step # 0
                      THEN TimerEffect(cleared, timerRef, FALSE)
                      ELSE [timers |-> cleared, timerRef |-> timerRef]
       IN  timers' = eff.timers /\ timerRef' = eff.timerRef
    /\ resetSince' = analysisPending
    /\ UNCHANGED <<inputN, isMicActive, quantumMatrix, isAnalyzing, mounted, alerts>>
    /\ UNCHANGED <<mgrVars, micVars, analysisPending, apiKey, remoteCalls,
                   callsEnded, lastOutcome, callVars>>

\* The user edits the index field
SetInputN(text) ==
    /\ mounted
    /\ text # inputN
    /\ inputN' = text
    /\ UNCHANGED <<isRunning, trajectory, step, isDetected, isMicActive,
                   quantumMatrix, isAnalyzing, aiReport, timers, timerRef, mounted, alerts>>
    /\ UNCHANGED <<mgrVars, micVars, aiVars, envVars, callVars>>

\* A tap on the hologram at grid cell (x, y): the soliton is triggered and,
\* when the simulation is paused, the matrix is computed at once.
HandleHologramInteraction(x, y) ==
    /\ UserActs
    /\ solitonCounter < MaxSolitons
    /\ solitonCounter' = solitonCounter + 1
    /\ LET pushed == triggerSoliton(solitons, solitonCounter, x, y)
           ticks  == Append(solitonTicks, 0)
       IN  IF ~isRunning
           THEN /\ solitons' = AgeSolitons(pushed)
                /\ solitonTicks' = TickAll(ticks)
                /\ quantumMatrix' = Matrix
                /\ \E heard \in AudioFrames :
                       lastSnapshot' = getFrequencyData(analyser, heard)
                /\ silentRead' = micDenied
           ELSE /\ solitons' = pushed
                /\ solitonTicks' = ticks
                /\ UNCHANGED <<quantumMatrix, lastSnapshot, silentRead>>
    /\ UNCHANGED <<isRunning, trajectory, step, isDetected, inputN, isMicActive,
                   isAnalyzing, aiReport, timers, timerRef, mounted, alerts>>
    /\ UNCHANGED <<devVars, micVars, aiVars, callVars>>

\* The Acoustics button.  Active: cleanup() and a fresh manager.  Not active:
\* initialize() is awaited; it asks for the microphone unless the manager
\* holds a stream already.
ToggleMic ==
    /\ UserActs
    /\ IF isMicActive
       THEN /\ stream' = cleanup.stream
            /\ analyser' = cleanup.analyser
            /\ audioContext' = cleanup.audioContext
            /\ solitons' = <<>>
            /\ solitonCounter' = 0
            /\ solitonTicks' = <<>>
            /\ mgrGen' = mgrGen + 1
            /\ micDenied' = FALSE
            /\ silentRead' = FALSE
            /\ isMicActive' = FALSE
            /\ UNCHANGED <<micPending, orphanStreams, micDenials, lastSnapshot>>
       ELSE IF stream # Null
       THEN /\ isMicActive' = TRUE
            /\ UNCHANGED <<mgrVars, micVars>>
       ELSE /\ micPending' = Append(micPending, mgrGen)
            /\ UNCHANGED <<isMicActive, mgrVars, mgrGen, orphanStreams,
                           micDenials, micDenied>>
    /\ UNCHANGED <<isRunning, trajectory, step, isDetected, inputN,
                   quantumMatrix, isAnalyzing, aiReport, timers, timerRef, mounted, alerts>>
    /\ UNCHANGED <<aiVars, callVars>>

RemoveAt(seq, i) == SubSeq(seq, 1, i - 1) \o SubSeq(seq, i + 1, Len(seq))

\* getUserMedia answers the i-th pending request.  initialize() goes on in
\* the manager that asked: the one audioManagerRef holds, or one that was
\* dropped since, whose stream nobody stops.  Then toggleMic goes on: the
\* alert when initialize() threw, the microphone flag when not.
MicAnswer(i, granted) ==
    /\ i \in DOMAIN micPending
    /\ micPending' = RemoveAt(micPending, i)
    /\ LET current == micPending[i] = mgrGen
           held    == IF current
                      THEN [stream |-> stream, audioContext |-> audioContext,
                            analyser |-> analyser]
                      ELSE NoDevices
           done    == initialize(held, granted)
       IN  /\ IF current
              THEN /\ stream' = done.stream
                   /\ analyser' = done.analyser
                   /\ audioContext' = done.audioContext
                   /\ orphanStreams' =
                          IF granted /\ stream # Null THEN orphanStreams + 1
                          ELSE orphanStreams
                   /\ micDenied' = (~granted /\ (micDenied \/ analyser = Null))
              ELSE /\ UNCHANGED <<devVars, micDenied>>
                   /\ orphanStreams' =
                          IF done.stream # Null THEN orphanStreams + 1
                          ELSE orphanStreams
           /\ IF ~mounted THEN UNCHANGED <<isMicActive, alerts>>
              ELSE IF done.threw
              THEN alerts' = alerts + 1 /\ UNCHANGED isMicActive
              ELSE isMicActive' = TRUE /\ UNCHANGED alerts
    /\ micDenials' = IF granted THEN micDenials ELSE micDenials + 1
    /\ silentRead' = (silentRead /\ micDenied')
    /\ UNCHANGED <<isRunning, trajectory, step, isDetected, inputN,
                   quantumMatrix, isAnalyzing, aiReport, timers, timerRef, mounted>>
    /\ UNCHANGED <<solitons, solitonCounter, solitonTicks, lastSnapshot, mgrGen,
                   aiVars, envVars, callVars>>

NO_KEY_TEXT == "API Key not found. Please ensure the environment is configured correctly."

NO_TEXT_TEXT == "Analysis core failed to synchronize with the quasiperiodic clock."

COLLAPSE_TEXT == "Error: Coherence collapse detected in AI Analyst Core. Check project API key and quota."

\* Mutant: the remote call is made outside the try block
analyzeSimulation_NoCatch(key, outcome) ==
    IF ~key THEN [text |-> NO_KEY_TEXT, threw |-> FALSE]
    ELSE CASE outcome = "text"  -> [text |-> "report", threw |-> FALSE]
           [] outcome = "empty" -> [text |-> NO_TEXT_TEXT, threw |-> FALSE]
           [] outcome = "throw" -> [text |-> "", threw |-> TRUE]

\* Mutant: the client is built before the key is looked at
analyzeSimulation_KeyUnchecked(key, outcome) ==
    CASE outcome = "text"  -> [text |-> "report", threw |-> FALSE]
      [] outcome = "empty" -> [text |-> NO_TEXT_TEXT, threw |-> FALSE]
      [] OTHER             -> [text |-> COLLAPSE_TEXT, threw |-> FALSE]

\* What analyzeSimulation resolves to: outcome is what the remote call does
\* ("none" when it is not made).  Every path is inside the try block.
analyzeSimulation(key, outcome) ==
    IF ~key THEN [text |-> NO_KEY_TEXT, threw |-> FALSE]
    ELSE CASE outcome = "text"  -> [text |-> "report", threw |-> FALSE]
           [] outcome = "empty" -> [text |-> NO_TEXT_TEXT, threw |-> FALSE]
           [] outcome = "throw" -> [text |-> COLLAPSE_TEXT, threw |-> FALSE]

\* Whether analyzeSimulation reaches generateContent
CallsRemote(key) == key

\* handleDeepAnalysis after the await: the report is stored and the pending
\* flag cleared, unless analyzeSimulation threw.
AfterAnalysis(done) ==
    IF done.threw THEN UNCHANGED <<aiReport, isAnalyzing>>
    ELSE /\ aiReport' = IF mounted THEN done.text ELSE aiReport
         /\ isAnalyzing' = IF mounted THEN FALSE ELSE isAnalyzing

\* Mutant: the pending flag is not set before the await
HandleDeepAnalysis_LateFlag ==
    /\ UserActs
    /\ IF isAnalyzing
       THEN UNCHANGED <<isAnalyzing, analysisPending, aiReport, remoteCalls, lastOutcome>>
       ELSE IF CallsRemote(apiKey)
       THEN /\ analysisPending' = TRUE
            /\ remoteCalls' = remoteCalls + 1
            /\ UNCHANGED <<isAnalyzing, aiReport, lastOutcome>>
       ELSE /\ AfterAnalysis(analyzeSimulation(apiKey, "none"))
            /\ UNCHANGED <<analysisPending, remoteCalls, lastOutcome>>
    /\ resetSince' = (isAnalyzing /\ resetSince)
    /\ UNCHANGED <<isRunning, trajectory, step, isDetected, inputN, isMicActive,
                   quantumMatrix, timers, timerRef, mounted, alerts>>
    /\ UNCHANGED <<mgrVars, micVars, apiKey, callsEnded, callVars>>

\* Mutant: the handler does not look at the pending flag
HandleDeepAnalysis_NoGuard ==
    /\ UserActs
    /\ IF CallsRemote(apiKey)
       THEN /\ isAnalyzing' = TRUE
            /\ analysisPending' = TRUE
            /\ remoteCalls' = remoteCalls + 1
            /\ UNCHANGED <<aiReport, lastOutcome>>
       ELSE /\ AfterAnalysis(analyzeSimulation(apiKey, "none"))
            /\ UNCHANGED <<analysisPending, remoteCalls, lastOutcome>>
    /\ resetSince' = FALSE
    /\ UNCHANGED <<isRunning, trajectory, step, isDetected, inputN, isMicActive,
                   quantumMatrix, timers, timerRef, mounted, alerts>>
    /\ UNCHANGED <<mgrVars, micVars, apiKey, callsEnded, callVars>>

\* The Run Stability Analysis handler: nothing while a call is outstanding.
\* Without a key analyzeSimulation resolves at once and the handler goes on
\* before any other event; with a key the remote call is outstanding.
HandleDeepAnalysis ==
    /\ UserActs
    /\ IF isAnalyzing
       THEN UNCHANGED <<isAnalyzing, analysisPending, aiReport, remoteCalls, lastOutcome>>
       ELSE IF CallsRemote(apiKey)
       THEN /\ isAnalyzing' = TRUE
            /\ analysisPending' = TRUE
            /\ remoteCalls' = remoteCalls + 1
            /\ UNCHANGED <<aiReport, lastOutcome>>
       ELSE /\ AfterAnalysis(analyzeSimulation(apiKey, "none"))
            /\ UNCHANGED <<analysisPending, remoteCalls, lastOutcome>>
    /\ resetSince' = (isAnalyzing /\ resetSince)
    /\ UNCHANGED <<isRunning, trajectory, step, isDetected, inputN, isMicActive,
                   quantumMatrix, timers, timerRef, mounted, alerts>>
    /\ UNCHANGED <<mgrVars, micVars, apiKey, callsEnded, callVars>>

\* The remote call ends: analyzeSimulation resolves and handleDeepAnalysis
\* goes on.
AnalysisReturns(outcome) ==
    /\ analysisPending
    /\ analysisPending' = FALSE
    /\ lastOutcome' = outcome
    /\ callsEnded' = callsEnded + 1
    /\ resetSince' = FALSE
    /\ AfterAnalysis(analyzeSimulation(apiKey, outcome))
    /\ UNCHANGED <<isRunning, trajectory, step, isDetected, inputN, isMicActive,
                   quantumMatrix, timers, timerRef, mounted, alerts>>
    /\ UNCHANGED <<mgrVars, micVars, apiKey, remoteCalls, envVars, callVars>>

\* The component is torn down: the timer effect clears the interval and the
\* mount effect cleans up the manager audioManagerRef holds.
Unmount ==
    /\ UserActs
    /\ mounted' = FALSE
    /\ timers' = ClearInterval(timers, timerRef)
    /\ UNCHANGED timerRef
    /\ stream' = cleanup.stream
    /\ analyser' = cleanup.analyser
    /\ audioContext' = cleanup.audioContext
    /\ UNCHANGED <<isRunning, trajectory, step, isDetected, inputN, isMicActive,
                   quantumMatrix, isAnalyzing, aiReport, alerts>>
    /\ UNCHANGED <<solitons, solitonCounter, solitonTicks, lastSnapshot, silentRead,
                   micVars, aiVars, callVars>>

Next ==
    \/ ToggleRunning
    \/ StepSimulation
    \/ ResetSimulation
    \/ \E text \in InputTexts \cup { <<"1">> } : SetInputN(text)
    \/ \E pt \in TapPoints : HandleHologramInteraction(pt[1], pt[2])
    \/ ToggleMic
    \/ \E i \in DOMAIN micPending, granted \in BOOLEAN : MicAnswer(i, granted)
    \/ HandleDeepAnalysis
    \/ \E outcome \in {"text", "empty", "throw"} : AnalysisReturns(outcome)
    \/ Unmount

Spec == Init /\ [][Next]_vars

\* The microphone and the analyst under more user actions and few timer steps
MaxMicEvents == 4

MaxMicN == 3

InitMic ==
    /\ InitApp
    /\ InitCalls
    /\ eventBudget = MaxMicEvents
    /\ stepLimit = MaxMicN * Scale

SpecMic == InitMic /\ [][Next]_vars

(***************************************************************************)
(* Direct calls of metripleticEvolution                                    *)
(***************************************************************************)
\* Calls made on one argument
MaxCalls == 2

\* Step indices (integers, fractions, negatives) and operator values tried
EvoIndices == { -25000, -10000, 0, 5000, 10000, 72500, 630000 }

EvoValues == { 10000, -3624, 6180 }

\* 0.1, 1.0, 2.5
EvoDts == { 1000, 10000, 25000 }

InitEvolution ==
    /\ InitApp
    /\ \E n \in EvoIndices, v \in EvoValues :
           evoArg = <<[INITIAL_STATE EXCEPT !.n = n, !.An = v, !.q = v]>>
    /\ evoCalls = <<>>
    /\ detArg = <<>>
    /\ detOut = <<>>
    /\ matArg = <<>>
    /\ matOut = <<>>
    /\ opArg = <<>>
    /\ opOut = <<>>
    /\ eventBudget = 0
    /\ stepLimit = 0

CallEvolution(dt, matrix) ==
    /\ Len(evoCalls) < MaxCalls
    /\ evoCalls' = Append(evoCalls,
           [dt |-> dt, matrix |-> matrix,
            result |-> metripleticEvolution(evoArg[1], dt, matrix)])
    /\ UNCHANGED <<appVars, mgrVars, micVars, aiVars, envVars, evoArg, detArg, detOut, matArg, matOut, opArg, opOut>>

NextEvolution ==
    \E dt \in EvoDts, matrix \in {Null, Matrix} : CallEvolution(dt, matrix)

SpecEvolution == InitEvolution /\ [][NextEvolution]_vars

(***************************************************************************)
(* Direct calls of detectRotor                                             *)
(***************************************************************************)
\* The longest trajectory handed to detectRotor
MaxDetLen == 11

\* Operator values of the states handed to detectRotor: 1/phi, 1.0, and
\* -(1/phi + 0.1), whose magnitude lies on the edge of the lock band
DetValues == { 6180, 10000, -7180 }

DetStates == { [INITIAL_STATE EXCEPT !.An = v, !.q = v] : v \in DetValues }

InitDetect ==
    /\ InitApp
    /\ evoArg = <<>>
    /\ evoCalls = <<>>
    /\ \E k \in 0..MaxDetLen : detArg \in [1..k -> DetStates]
    /\ detOut = <<>>
    /\ matArg = <<>>
    /\ matOut = <<>>
    /\ opArg = <<>>
    /\ opOut = <<>>
    /\ eventBudget = 0
    /\ stepLimit = 0

CallDetectRotor ==
    /\ detOut = <<>>
    /\ detOut' = <<detectRotor(detArg)>>
    /\ UNCHANGED <<appVars, mgrVars, micVars, aiVars, envVars, evoArg, evoCalls, detArg, matArg, matOut, opArg, opOut>>

SpecDetect == InitDetect /\ [][CallDetectRotor]_vars

(***************************************************************************)
(* Direct calls of the QuantumAudioManager                                 *)
(***************************************************************************)
CallTriggerSoliton(x, y) ==
    /\ solitonCounter < MaxSolitons
    /\ solitons' = triggerSoliton(solitons, solitonCounter, x, y)
    /\ solitonCounter' = solitonCounter + 1
    /\ solitonTicks' = Append(solitonTicks, 0)
    /\ UNCHANGED <<appVars, devVars, lastSnapshot, silentRead, micVars, aiVars, envVars, callVars>>

\* computeQuantumState(timeIndex, q): the arguments shape only the cells
CallComputeQuantumState ==
    /\ solitons' = AgeSolitons(solitons)
    /\ solitonTicks' = TickAll(solitonTicks)
    /\ quantumMatrix' = Matrix
    /\ \E heard \in AudioFrames : lastSnapshot' = getFrequencyData(analyser, heard)
    /\ silentRead' = micDenied
    /\ UNCHANGED <<isRunning, trajectory, step, isDetected, inputN, isMicActive,
                   isAnalyzing, aiReport, timers, timerRef, mounted, alerts>>
    /\ UNCHANGED <<solitonCounter, devVars, micVars, aiVars, envVars, callVars>>

NextManager ==
    \/ \E pt \in GridPoints : CallTriggerSoliton(pt[1], pt[2])
    \/ CallComputeQuantumState

SpecManager == Init /\ [][NextManager]_vars

(***************************************************************************)
(* Properties                                                              *)
(***************************************************************************)
\* C1: the trajectory always holds at least 1 and at most 64 states, and a
\* step taken at 64 states drops exactly the first state and appends the new
\* one (the successor of the former last state) at the end.
C1_TrajectoryBounded ==
    /\ [](Len(trajectory) >= 1 /\ Len(trajectory) <= TRAJECTORY_LENGTH)
    /\ [][(step' = step + 1 /\ Len(trajectory) = TRAJECTORY_LENGTH) =>
            /\ Len(trajectory') = TRAJECTORY_LENGTH
            /\ SubSeq(trajectory', 1, TRAJECTORY_LENGTH - 1) = Tail(trajectory)
            /\ Last(trajectory').n = Last(trajectory).n + One
            /\ Last(trajectory').p = Last(trajectory').An - Last(trajectory).An]_vars

\* C1 witness: the buffer is full and more steps were taken than it holds,
\* so the oldest state has been evicted.
C1_Witness ==
    /\ Len(trajectory) = TRAJECTORY_LENGTH
    /\ step > TRAJECTORY_LENGTH
    /\ trajectory[1].n > One

\* C2: adjacent states of the trajectory have step indices that differ by
\* exactly 1, the later one the larger.
C2_ContiguousIndices ==
    \A i \in 1..(Len(trajectory) - 1) : trajectory[i + 1].n = trajectory[i].n + One

\* C2 witness: a run of steps after a reset to a negative index that has
\* crossed index 0.
C2_Witness ==
    /\ Len(trajectory) >= 4
    /\ trajectory[1].n < 0
    /\ Last(trajectory).n > 0

\* The state the stepper is specified to return for the argument s
EvolutionPost(s, r) ==
    /\ r.n = Floor(s.n) + One
    /\ r.An = calculateAureoOperator(r.n)
    /\ r.q = r.An
    /\ r.p = r.An - s.An
    /\ r.S = entropy(r.An)
    /\ r.kappa = abs(r.An)

\* C3: metripleticEvolution(s, dt, matrix) returns n' = floor(s.n) + 1,
\* An' = calculateAureoOperator(n'), q' = An', p' = An' - s.An,
\* S' = entropy(An'), kappa' = |An'|, and a call changes neither s nor any
\* state of the application or the manager.
C3_EvolutionContract ==
    /\ [](\A i \in DOMAIN evoCalls : EvolutionPost(evoArg[1], evoCalls[i].result))
    /\ [][UNCHANGED <<evoArg, appVars, mgrVars, micVars, aiVars>>]_vars

\* C3 witness: a call on a state with a fractional, negative step index
C3_Witness ==
    /\ evoCalls # <<>>
    /\ evoArg[1].n = -25000
    /\ evoCalls[1].result.n = -20000

\* C4: the result of the stepper depends neither on dt nor on the matrix:
\* all calls on one state return the same state, whose index is one above
\* the (integer part of the) argument's.
C4_DtIndependent ==
    \A i, j \in DOMAIN evoCalls :
        /\ evoCalls[i].result = evoCalls[j].result
        /\ evoCalls[i].result.n = Floor(evoArg[1].n) + One

\* C4 witness: two calls on one state that differ in dt and in the matrix
C4_Witness ==
    /\ Len(evoCalls) = 2
    /\ evoCalls[1].dt # evoCalls[2].dt
    /\ evoCalls[1].matrix # evoCalls[2].matrix
    /\ evoCalls[1].dt # DT

\* C5: every state of the trajectory has kappa = |An|.
C5_KappaIsMagnitude ==
    \A i \in DOMAIN trajectory : trajectory[i].kappa = abs(trajectory[i].An)

\* C6: every state of the trajectory, the initial one included, has
\* An = calculateAureoOperator(n) for its own step index n.
C6_OperatorOfIndex ==
    \A i \in DOMAIN trajectory :
        trajectory[i].An = calculateAureoOperator(trajectory[i].n)

\* C7: every state of the trajectory has q = An.
C7_PositionIsOperator ==
    \A i \in DOMAIN trajectory : trajectory[i].q = trajectory[i].An

\* C7 witness: a trajectory that starts with a state made by reset (index
\* other than the initial 1) and goes on with states made by the stepper
C7_Witness ==
    /\ Len(trajectory) >= 3
    /\ trajectory[1].n = -2 * One
    /\ trajectory[1].p = 0
    /\ trajectory[1].An # One

\* The sum of |An| over states i..j of traj
RECURSIVE SumMagnitude(_, _, _)
SumMagnitude(traj, i, j) ==
    IF i > j THEN 0 ELSE abs(traj[i].An) + SumMagnitude(traj, i + 1, j)

\* The score the detector is specified to give for traj
RotorPost(traj, r) ==
    LET len == Len(traj)
        sum == SumMagnitude(traj, len - 9, len)
    IN  /\ r \in {0, 2000, 9000}
        /\ len < 10 => r = 0
        /\ len >= 10 /\ abs(sum - 10 * Golden) < 10 * 1000 => r = 9000
        /\ len >= 10 /\ abs(sum - 10 * Golden) >= 10 * 1000 => r = 2000
        /\ len >= 10 => r = detectRotor(SubSeq(traj, len - 9, len))

\* C8: detectRotor returns 0.0 below 10 states; otherwise 0.9 when the mean
\* of |An| over the last 10 states is strictly within 0.1 of 1/phi and 0.2
\* when not; no other value; earlier states do not count; the trajectory is
\* not modified.
C8_DetectRotorContract ==
    /\ [](\A i \in DOMAIN detOut : RotorPost(detArg, detOut[i]))
    /\ [][detArg' = detArg]_vars

\* C8 witness: a lock scored on 11 states whose first state, were it
\* counted, would push the mean out of the band
C8_Witness ==
    /\ detOut = <<9000>>
    /\ Len(detArg) = 11
    /\ detArg[1].An = 10000
    /\ \A i \in 2..11 : detArg[i].An \in {-7180, 6180}
    /\ detArg[2].An = -7180
    /\ detArg[3].An = 6180

\* C9: after every trajectory update the detected flag is true exactly when
\* detectRotor of the current trajectory is at least 0.5, at every length,
\* 10 included.
C9_DetectedIffScore ==
    isDetected <=> (detectRotor(trajectory) >= 5000)

\* C10: a soliton triggered at age 0 is live after each of the first 74
\* matrix computations that follow and is removed by the 75th.
C10_SolitonLifetime ==
    \A i \in DOMAIN solitonTicks :
        LET live == \E k \in DOMAIN solitons : solitons[k].id = i - 1
        IN  /\ solitonTicks[i] <= 74 => live
            /\ solitonTicks[i] >= 75 => ~live

(***************************************************************************)
(* Direct calls of computeQuantumState                                     *)
(***************************************************************************)
\* Frequency data: silence and what the analyser hears
MatFrames == { Zeros } \cup AudioFrames

\* Time indices step * 0.1: 0, 0.7 and 6.3
MatTimes == { 0, 7000, 63000 }

\* Operator values: 0, 1.0, -0.3624 (the operator of index 1) and 2.0
MatValues == { 0, 10000, 20000, -3624 }

\* A soliton of age t at grid cell (x, y)
SolitonAt(x, y, t) == [id |-> 0, x |-> x, y |-> y, t |-> t, amplitude |-> One]

\* Ages 3.0 and 14.9: the second is dropped by the next computation
MatAges == [mid |-> [hi |-> 3 * 2^25, lo |-> 0], old |-> [hi |-> 499961037, lo |-> 0]]

\* Live sets: none, one about to die, one just triggered, two
MatSolitons ==
    { <<>>,
      <<SolitonAt(0, 0, MatAges.old)>>,
      <<SolitonAt(0, 0, DblZero)>>,
      <<SolitonAt(QUANTUM_DIM \div 2, QUANTUM_DIM \div 2, DblZero),
        SolitonAt(QUANTUM_DIM - 1, 0, MatAges.mid)>> }

InitMatrix ==
    /\ InitApp
    /\ evoArg = <<>>
    /\ evoCalls = <<>>
    /\ detArg = <<>>
    /\ detOut = <<>>
    /\ \E a \in MatFrames, t \in MatTimes, q \in MatValues, sols \in MatSolitons :
           matArg = [amplitudes |-> a, timeIndex |-> t, q |-> q, solitons |-> sols]
    /\ matOut = <<>>
    /\ opArg = <<>>
    /\ opOut = <<>>
    /\ eventBudget = 0
    /\ stepLimit = 0

CallMatrix ==
    /\ matOut = <<>>
    /\ matOut' = <<computeQuantumState(matArg.amplitudes, matArg.timeIndex,
                                       matArg.q, matArg.solitons)>>
    /\ UNCHANGED <<appVars, mgrVars, micVars, aiVars, envVars,
                   evoArg, evoCalls, detArg, detOut, matArg, opArg, opOut>>

SpecMatrix == InitMatrix /\ [][CallMatrix]_vars

(***************************************************************************)
(* Direct calls of calculateAureoOperator                                  *)
(***************************************************************************)
\* The integers handed to calculateAureoOperator are -MaxOpN .. MaxOpN
MaxOpN == 100

InitOperator ==
    /\ InitApp
    /\ evoArg = <<>>
    /\ evoCalls = <<>>
    /\ detArg = <<>>
    /\ detOut = <<>>
    /\ matArg = <<>>
    /\ matOut = <<>>
    /\ \E n \in -MaxOpN..MaxOpN : opArg = <<n * Scale>>
    /\ opOut = <<>>
    /\ eventBudget = 0
    /\ stepLimit = 0

CallOperator ==
    /\ opOut = <<>>
    /\ opOut' = <<calculateAureoOperator(opArg[1])>>
    /\ UNCHANGED <<appVars, mgrVars, micVars, aiVars, envVars,
                   evoArg, evoCalls, detArg, detOut, matArg, matOut, opArg>>

SpecOperator == InitOperator /\ [][CallOperator]_vars

\* A step that runs computeQuantumState: a timer step, or a tap while paused
Computes ==
    \/ step' = step + 1
    \/ solitonCounter' = solitonCounter + 1 /\ ~isRunning

\* Every soliton live before the step is live after it
SolitonsKept ==
    \A i \in DOMAIN solitons : \E j \in DOMAIN solitons' : solitons'[j].id = solitons[i].id

\* C11: the matrix computation is the only place solitons die: a step that
\* is no matrix computation (start/pause, reset, microphone toggle on or off,
\* analysis request, soliton trigger while running) removes no soliton from
\* the live set.
C11_OnlyComputationRemoves == [][Computes \/ SolitonsKept]_vars

\* getUserMedia denied a request of the mounted component in this step
DenialStep == mounted /\ micDenials' = micDenials + 1

\* C14: when the microphone is toggled on and the acquisition is denied, the
\* toggle handler reaches its alert branch and the microphone is not reported
\* active.
C14_DenialAlerts ==
    [][DenialStep => (alerts' = alerts + 1 /\ ~isMicActive')]_vars

\* C15: after a denied acquisition, as long as no acquisition was granted to
\* the manager, the manager has no analyser and every frequency snapshot is
\* 32 zero bins; the denial touches neither the trajectory, the timer nor the
\* solitons, and afterwards a timer step still appends the stepper's next
\* state and ages the solitons, and a tap still triggers its soliton.
C15_SilentAfterDenial ==
    /\ [](micDenied =>
            /\ analyser = Null
            /\ \A heard \in AudioFrames : getFrequencyData(analyser, heard) = Zeros)
    /\ [][(micDenied /\ Computes) => lastSnapshot' = Zeros]_vars
    /\ [][DenialStep => UNCHANGED <<trajectory, step, isRunning, timerActive,
                                    solitons, solitonCounter, quantumMatrix>>]_vars
    /\ [][(micDenied /\ step' = step + 1) =>
            /\ trajectory' = Appended(trajectory,
                                 metripleticEvolution(Last(trajectory), DT, Matrix))
            /\ solitons' = AgeSolitons(solitons)]_vars
    /\ [][(micDenied /\ solitonCounter' = solitonCounter + 1) =>
            \E k \in DOMAIN solitons' : solitons'[k].id = solitonCounter]_vars

\* A timer step read an all-zero snapshot after the denial, with a soliton live
C15_Witness ==
    /\ micDenied
    /\ silentRead
    /\ lastSnapshot = Zeros
    /\ step > 0
    /\ solitons # <<>>

\* C15, as stated: after a denied acquisition every later frequency snapshot
\* is all zeros.
C15_AlwaysZeros == [][(micDenials > 0 /\ Computes) => lastSnapshot' = Zeros]_vars

\* C16: after a microphone toggle-off or the teardown, under every
\* interleaving with a pending acquisition, every stream that was acquired is
\* stopped and every context closed (a context is made together with its
\* stream): no stream lives outside the manager, the toggle-off leaves the
\* manager without stream, analyser and context, and so does the teardown
\* from then on.
C16_AllReleased ==
    /\ [](orphanStreams = 0)
    /\ [](~mounted => stream = Null /\ analyser = Null /\ audioContext = Null)
    /\ [][mgrGen' # mgrGen =>
            stream' = Null /\ analyser' = Null /\ audioContext' = Null]_vars

\* C17: without a credential analyzeSimulation returns the fixed 'API Key not
\* found' message, does not reach the remote call and does not throw: no
\* remote call is ever started or outstanding, and a request stores the
\* message and leaves the pending flag cleared.
C17_NoKeyMessage ==
    /\ [](\A outcome \in {"none", "text", "empty", "throw"} :
            /\ analyzeSimulation(FALSE, outcome) = [text |-> NO_KEY_TEXT, threw |-> FALSE]
            /\ ~CallsRemote(FALSE))
    /\ [](~apiKey => /\ remoteCalls = 0
                     /\ ~analysisPending
                     /\ ~isAnalyzing
                     /\ aiReport \in {"", NO_KEY_TEXT})
    /\ [][(~apiKey /\ HandleDeepAnalysis) => aiReport' = NO_KEY_TEXT]_vars

\* A request was made without a credential: the message is the report
C17_Witness ==
    /\ ~apiKey
    /\ aiReport = NO_KEY_TEXT
    /\ ~isAnalyzing
    /\ remoteCalls = 0

\* The remote call ended in this step, with the component mounted
CallEnds == mounted /\ analysisPending /\ ~analysisPending'

\* C18: when the remote call throws, analyzeSimulation returns the
\* 'coherence collapse' message; when it returns no text, the other fallback
\* message; in both cases the handler stores the message and clears the
\* pending flag, so that the next request starts a remote call.
C18_FallbackTexts ==
    /\ [](/\ analyzeSimulation(TRUE, "throw") = [text |-> COLLAPSE_TEXT, threw |-> FALSE]
          /\ analyzeSimulation(TRUE, "empty") = [text |-> NO_TEXT_TEXT, threw |-> FALSE]
          /\ COLLAPSE_TEXT # NO_TEXT_TEXT)
    /\ [][CallEnds =>
            /\ ~isAnalyzing'
            /\ lastOutcome' = "throw" => aiReport' = COLLAPSE_TEXT
            /\ lastOutcome' = "empty" => aiReport' = NO_TEXT_TEXT]_vars
    /\ []((mounted /\ ~analysisPending) => ~isAnalyzing)
    /\ [][(HandleDeepAnalysis /\ apiKey /\ ~analysisPending) =>
            analysisPending' /\ isAnalyzing' /\ remoteCalls' = remoteCalls + 1]_vars

\* The remote call threw, the message is the report, and a second request
\* was accepted since
C18_Witness ==
    /\ lastOutcome = "throw"
    /\ aiReport = COLLAPSE_TEXT
    /\ remoteCalls = 2
    /\ analysisPending

\* C19: while a remote call is outstanding isAnalyzing is true in every
\* state; the interval stays registered while the simulation runs, and a
\* timer step taken meanwhile appends the stepper's next state, so the last
\* index grows by one; when the call ends the flag is false.
C19_PendingFlag ==
    /\ [](analysisPending => isAnalyzing)
    /\ []((analysisPending /\ isRunning /\ mounted) => timerActive)
    /\ [][(analysisPending /\ step' = step + 1) =>
            /\ analysisPending'
            /\ trajectory' = Appended(trajectory,
                                 metripleticEvolution(Last(trajectory), DT, Matrix))
            /\ Last(trajectory').n = Last(trajectory).n + One]_vars
    /\ [][CallEnds => ~isAnalyzing']_vars

\* A remote call is outstanding on the running simulation, whose timer has
\* stepped three times
C19_Witness ==
    /\ analysisPending
    /\ isAnalyzing
    /\ isRunning
    /\ events = 2
    /\ step = 3
    /\ remoteCalls = 1

\* C20: the interval is registered exactly while the simulation runs; a tick
\* performs one step, after which the last index is one more than before; a
\* paused simulation takes no step: its trajectory changes only by a reset.
C20_OneStepPerTick ==
    /\ [](mounted => (timerActive <=> isRunning))
    /\ [][step' = step + 1 =>
            /\ isRunning
            /\ Last(trajectory').n = Last(trajectory).n + One
            /\ trajectory' = Appended(trajectory, Last(trajectory'))]_vars
    /\ [][~isRunning =>
            \/ trajectory' = trajectory /\ step' = step
            \/ trajectory' = <<ResetState(inputN)>> /\ step' = 0]_vars

\* Two ticks, then the pause
C20_Witness ==
    /\ ~isRunning
    /\ events = 2
    /\ step = 2
    /\ Last(trajectory).n = 3 * Scale

\* The cells of the matrix the direct call returned
MatCells == { matOut[1].matrix[i][j] : i \in 1..QUANTUM_DIM, j \in 1..QUANTUM_DIM }

\* C12: when the live soliton set is empty after the ageing and the
\* frequency data is all zeros, every cell of the matrix is exactly 0, for
\* every time index and operator value.
C12_SilentMatrixIsZero ==
    (matOut # <<>> /\ matArg.amplitudes = Zeros /\ matOut[1].solitons = <<>>)
        => MatCells = {0}

\* Silence, a soliton that the ageing of this call dropped, and a time index
\* and an operator value that are not 0
C12_Witness ==
    /\ matOut # <<>>
    /\ matArg.amplitudes = Zeros
    /\ matArg.solitons # <<>>
    /\ matOut[1].solitons = <<>>
    /\ matArg.timeIndex # 0
    /\ matArg.q # 0
    /\ MatCells = {0}

\* C13: every call of computeQuantumState returns exactly 32 rows of exactly
\* 32 cells, each in [-2, 2], whatever the frequency data, the time index,
\* the operator value and the solitons.
C13_MatrixShapeAndRange ==
    matOut # <<>> =>
        /\ Len(matOut[1].matrix) = 32
        /\ \A i \in 1..Len(matOut[1].matrix) :
               /\ Len(matOut[1].matrix[i]) = 32
               /\ \A j \in 1..Len(matOut[1].matrix[i]) :
                      /\ matOut[1].matrix[i][j] >= -2 * Scale
                      /\ matOut[1].matrix[i][j] <= 2 * Scale

\* Both clamps acted: a cell sits at 2.0 and another at -2.0
C13_Witness ==
    /\ matOut # <<>>
    /\ 2 * Scale \in MatCells
    /\ -2 * Scale \in MatCells

\* C21: for every integer k in the index field, 0 and negatives included,
\* reset leaves a trajectory of exactly one state with n = k,
\* An = q = calculateAureoOperator(k), p = 0 and S = entropy(An), sets the
\* step counter to 0, clears the detected flag and stops the timer.
C21_ResetToChosenIndex ==
    [][(ResetSimulation /\ ~parseInt(inputN).nan) =>
          LET k == parseInt(inputN).value * Scale
          IN  /\ Len(trajectory') = 1
              /\ trajectory'[1].n = k
              /\ trajectory'[1].An = calculateAureoOperator(k)
              /\ trajectory'[1].q = calculateAureoOperator(k)
              /\ trajectory'[1].p = 0
              /\ trajectory'[1].S = entropy(calculateAureoOperator(k))
              /\ step' = 0
              /\ ~isDetected'
              /\ ~isRunning'
              /\ timers' = {}]_vars

\* C22: for every integer n, calculateAureoOperator(n) lies in [-1, 1], and
\* calculateAureoOperator(0) = 1.
C22_OperatorRange ==
    opOut # <<>> =>
        /\ opOut[1] >= -One
        /\ opOut[1] <= One
        /\ opArg[1] = 0 => opOut[1] = One

\* The operator of index 0 was computed
C22_Witness ==
    /\ opArg = <<0>>
    /\ opOut = <<One>>

\* The streams that are acquired and not stopped: the one the manager
\* holds, and the ones nobody holds
LiveStreams == (IF stream # Null THEN 1 ELSE 0) + orphanStreams

\* C23: at most one microphone stream is acquired and not yet stopped at any
\* time, and a toggle-on while an acquisition is pending asks for no second
\* stream.
C23_OneStream ==
    /\ [](LiveStreams <= 1)
    /\ [][(ToggleMic /\ micPending # <<>>) => micPending' = micPending]_vars

\* C24: after a reset the report stays empty until an analysis requested
\* after that reset completes: a remote call that was outstanding when the
\* reset happened writes nothing into the report when it ends.
C24_ResetDropsStaleReport ==
    /\ [][(analysisPending /\ ~analysisPending' /\ resetSince) => aiReport' = ""]_vars
    /\ []((analysisPending /\ resetSince) => aiReport = "")

\* C25: in every reachable state the microphone-active flag is true only if
\* the current manager holds an acquired, un-stopped stream with an analyser;
\* a denied acquisition never sets it.
C25_ActiveMeansStream ==
    /\ []((mounted /\ isMicActive) => (stream # Null /\ analyser # Null))
    /\ [][(DenialStep /\ ~isMicActive) => ~isMicActive']_vars

\* C26: at most one analysis call is outstanding at any time: a request made
\* while a call is pending starts no second remote call and changes no state.
C26_OneAnalysis ==
    /\ [](remoteCalls - callsEnded <= 1)
    /\ [](analysisPending <=> remoteCalls - callsEnded = 1)
    /\ [][(HandleDeepAnalysis /\ analysisPending) =>
            UNCHANGED <<appVars, mgrVars, micVars, aiVars, budgetVars, callVars>>]_vars

\* Two presses of the analysis button and nothing else: the first call is
\* outstanding, the second press started none
C26_Witness ==
    /\ events = 2
    /\ remoteCalls = 1
    /\ analysisPending
    /\ trajectory = <<INITIAL_STATE>>
    /\ timerRef = 0
    /\ solitonCounter = 0
    /\ micPending = <<>>
    /\ ~isMicActive
    /\ micDenials = 0
    /\ mounted
    /\ ~resetSince

\* C27: in every reachable state at most one interval is registered, and
\* none while the running flag is false; while the mounted simulation runs
\* one is registered, and the re-registration after each step leaves exactly
\* the interval timerRef holds.
C27_OneTimer ==
    /\ [](Cardinality(timers) <= 1)
    /\ [](~isRunning => timers = {})
    /\ []((mounted /\ isRunning) => timers = {timerRef})
    /\ [][step' = step + 1 => timers' = {timerRef'}]_vars

\* The simulation runs and has stepped, so the interval was re-registered
C27_Witness ==
    /\ isRunning
    /\ mounted
    /\ step >= 2
    /\ timers = {timerRef}
    /\ timerRef # 0

=========================================================================
